---------------------------- MODULE Spec2Model ----------------------------
(***************************************************************************)
(* Model of dashboardv2.py, the Streamlit script of the Future Fault       *)
(* Prediction Dashboard.  Streamlit executes the script from top to bottom *)
(* on every interaction (a "run"); st.stop() ends a run early; what        *)
(* survives from one run to the next is st.session_state and the widgets   *)
(* on the page.                                                            *)
(*                                                                         *)
(* A rerun request (an interaction while the script runs) unwinds the run  *)
(* at the next st.* call it makes or the next access to st.session_state,  *)
(* so these are the points at which a run can end early.  One run is       *)
(* modelled as the steps from one such point to the next, pc naming the    *)
(* point the run has reached:                                              *)
(*   StartRun, MainLogic, StError, StException, NoValidFilesStop,          *)
(*   LoadedSuccess                lines 1-181   file ingestion and merge   *)
(*   RunPrediction, RunPredictionRaises, SpinnerExit, NoRiskStop           *)
(*                                lines 188-195 predict_future_faults      *)
(*   SiteMultiselect, RiskMultiselect, NoMatchStop                         *)
(*                                lines 201-228 site / risk-level filters  *)
(*   TableAndRiskCount, SiteRiskCount, SiteChart                           *)
(*                                lines 234-317 table and chart inputs     *)
(*   FlagTest, FlagInit, AutoEmail, SecretsWarning, EmailSuccess,          *)
(*   FlagWrite, EmailWarning      lines 323-333 once-per-session e-mail    *)
(*   DownloadReport               lines 339-346 CSV download button        *)
(*   Interrupt                    the run is unwound at the point reached  *)
(*                                                                         *)
(* Column names are sequences of code points, so that the string           *)
(* operations of the column normalisation are computed, not assumed.       *)
(* Cell values, file names and messages are plain strings.                 *)
(*                                                                         *)
(* Specifications, all over the same actions, differing in the inputs:     *)
(*   Spec         the session: small tables, every secret configuration    *)
(*                and every outcome of the SMTP steps                      *)
(*   SpecIngest   every batch of readable and unreadable files             *)
(*   SpecColumns  every header row of column names                         *)
(*   SpecData     every oracle output and every filter selection           *)
(***************************************************************************)
EXTENDS Integers, Sequences, FiniteSets, TLC

(***************************************************************************)
(* Bounds of the model.                                                    *)
(***************************************************************************)
\* deliveries to the SMTP transport after which no further run is explored
MaxDeliveries == 2
\* files in one upload batch
MaxFiles == 2
\* columns of one raw table in the column-normalisation specification
MaxCols == 2
\* records the oracle returns in the filter/aggregation specification
MaxRecords == 2

(***************************************************************************)
(* Generic helpers on sequences.                                           *)
(***************************************************************************)
Range(s) == {s[i] : i \in 1..Len(s)}

SeqsUpTo(S, n) == UNION {[1..k -> S] : k \in 0..n}

\* the elements of s at the positions where mask is TRUE, in order
RECURSIVE SelectByMask(_, _)
SelectByMask(s, mask) ==
    IF s = <<>> THEN <<>>
    ELSE LET rest == SelectByMask(Tail(s), Tail(mask))
         IN  IF Head(mask) THEN <<Head(s)>> \o rest ELSE rest

\* first position of x in s (x occurs in s)
IndexOf(s, x) == CHOOSE i \in 1..Len(s) : s[i] = x /\ \A j \in 1..(i-1) : s[j] # x

\* a mapping (dict, st.session_state, st.secrets) as the set of its
\* (key, value) pairs
HasKey(m, k) == \E p \in m : p[1] = k
Get(m, k) == (CHOOSE p \in m : p[1] = k)[2]
Put(m, k, v) == {p \in m : p[1] # k} \cup {<<k, v>>}

(***************************************************************************)
(* Python string methods used on column names (lines 150-156).  A column   *)
(* name is the sequence of the code points of its characters.              *)
(***************************************************************************)
\* the characters with the code points 32..95 and 97..126, in the order of
\* their codes
Printable == <<" !\"#$%&'()*+,-./0123456789:;<=>?@ABCDEFGHIJKLMNOPQRSTUVWXYZ[\\]^_",
               "abcdefghijklmnopqrstuvwxyz{|}~">>

\* ord(ch) of a character of Printable
Ord(ch) ==
    IF \E i \in 1..Len(Printable[1]) : SubSeq(Printable[1], i, i) = ch
    THEN 31 + (CHOOSE i \in 1..Len(Printable[1]) : SubSeq(Printable[1], i, i) = ch)
    ELSE 96 + (CHOOSE i \in 1..Len(Printable[2]) : SubSeq(Printable[2], i, i) = ch)

\* the code points of a string of such characters
Codes(str) == [i \in 1..Len(str) |-> Ord(SubSeq(str, i, i))]

SPACE == Ord(" ")
UNDERSCORE == Ord("_")
DOT == Ord(".")

\* str(k) of a natural number, as code points
RECURSIVE Digits(_)
Digits(k) == IF k < 10 THEN <<48 + k>> ELSE Digits(k \div 10) \o <<48 + (k % 10)>>

\* the code points c with chr(c).isspace(), which str.strip() removes:
\* \t \n \v \f \r, the separators 28..31, the space, NEL, the no-break space
\* and the Unicode spaces
Whitespace == {9, 10, 11, 12, 13, 28, 29, 30, 31, 32, 133, 160, 5760}
              \cup (8192..8202) \cup {8232, 8233, 8239, 8287, 12288}

\* the code points above 127 that str.lower() maps to one other code point,
\* as runs <<first, last, step, offset>>: first, first + step, ..., last are
\* each mapped to the code point offset above (Unicode 14.0, Python 3.11)
LowerRuns == <<
    <<192, 214, 1, 32>>, <<216, 222, 1, 32>>, <<256, 302, 2, 1>>, <<306, 310, 2, 1>>,
    <<313, 327, 2, 1>>, <<330, 374, 2, 1>>, <<376, 376, 1, -121>>, <<377, 381, 2, 1>>,
    <<385, 385, 1, 210>>, <<386, 388, 2, 1>>, <<390, 390, 1, 206>>, <<391, 391, 1, 1>>,
    <<393, 394, 1, 205>>, <<395, 395, 1, 1>>, <<398, 398, 1, 79>>, <<399, 399, 1, 202>>,
    <<400, 400, 1, 203>>, <<401, 401, 1, 1>>, <<403, 403, 1, 205>>, <<404, 404, 1, 207>>,
    <<406, 406, 1, 211>>, <<407, 407, 1, 209>>, <<408, 408, 1, 1>>, <<412, 412, 1, 211>>,
    <<413, 413, 1, 213>>, <<415, 415, 1, 214>>, <<416, 420, 2, 1>>, <<422, 422, 1, 218>>,
    <<423, 423, 1, 1>>, <<425, 425, 1, 218>>, <<428, 428, 1, 1>>, <<430, 430, 1, 218>>,
    <<431, 431, 1, 1>>, <<433, 434, 1, 217>>, <<435, 437, 2, 1>>, <<439, 439, 1, 219>>,
    <<440, 440, 1, 1>>, <<444, 444, 1, 1>>, <<452, 452, 1, 2>>, <<453, 453, 1, 1>>,
    <<455, 455, 1, 2>>, <<456, 456, 1, 1>>, <<458, 458, 1, 2>>, <<459, 475, 2, 1>>,
    <<478, 494, 2, 1>>, <<497, 497, 1, 2>>, <<498, 500, 2, 1>>, <<502, 502, 1, -97>>,
    <<503, 503, 1, -56>>, <<504, 542, 2, 1>>, <<544, 544, 1, -130>>, <<546, 562, 2, 1>>,
    <<570, 570, 1, 10795>>, <<571, 571, 1, 1>>, <<573, 573, 1, -163>>, <<574, 574, 1, 10792>>,
    <<577, 577, 1, 1>>, <<579, 579, 1, -195>>, <<580, 580, 1, 69>>, <<581, 581, 1, 71>>,
    <<582, 590, 2, 1>>, <<880, 882, 2, 1>>, <<886, 886, 1, 1>>, <<895, 895, 1, 116>>,
    <<902, 902, 1, 38>>, <<904, 906, 1, 37>>, <<908, 908, 1, 64>>, <<910, 911, 1, 63>>,
    <<913, 929, 1, 32>>, <<931, 939, 1, 32>>, <<975, 975, 1, 8>>, <<984, 1006, 2, 1>>,
    <<1012, 1012, 1, -60>>, <<1015, 1015, 1, 1>>, <<1017, 1017, 1, -7>>, <<1018, 1018, 1, 1>>,
    <<1021, 1023, 1, -130>>, <<1024, 1039, 1, 80>>, <<1040, 1071, 1, 32>>, <<1120, 1152, 2, 1>>,
    <<1162, 1214, 2, 1>>, <<1216, 1216, 1, 15>>, <<1217, 1229, 2, 1>>, <<1232, 1326, 2, 1>>,
    <<1329, 1366, 1, 48>>, <<4256, 4293, 1, 7264>>, <<4295, 4295, 1, 7264>>, <<4301, 4301, 1, 7264>>,
    <<5024, 5103, 1, 38864>>, <<5104, 5109, 1, 8>>, <<7312, 7354, 1, -3008>>, <<7357, 7359, 1, -3008>>,
    <<7680, 7828, 2, 1>>, <<7838, 7838, 1, -7615>>, <<7840, 7934, 2, 1>>, <<7944, 7951, 1, -8>>,
    <<7960, 7965, 1, -8>>, <<7976, 7983, 1, -8>>, <<7992, 7999, 1, -8>>, <<8008, 8013, 1, -8>>,
    <<8025, 8031, 2, -8>>, <<8040, 8047, 1, -8>>, <<8072, 8079, 1, -8>>, <<8088, 8095, 1, -8>>,
    <<8104, 8111, 1, -8>>, <<8120, 8121, 1, -8>>, <<8122, 8123, 1, -74>>, <<8124, 8124, 1, -9>>,
    <<8136, 8139, 1, -86>>, <<8140, 8140, 1, -9>>, <<8152, 8153, 1, -8>>, <<8154, 8155, 1, -100>>,
    <<8168, 8169, 1, -8>>, <<8170, 8171, 1, -112>>, <<8172, 8172, 1, -7>>, <<8184, 8185, 1, -128>>,
    <<8186, 8187, 1, -126>>, <<8188, 8188, 1, -9>>, <<8486, 8486, 1, -7517>>, <<8490, 8490, 1, -8383>>,
    <<8491, 8491, 1, -8262>>, <<8498, 8498, 1, 28>>, <<8544, 8559, 1, 16>>, <<8579, 8579, 1, 1>>,
    <<9398, 9423, 1, 26>>, <<11264, 11311, 1, 48>>, <<11360, 11360, 1, 1>>, <<11362, 11362, 1, -10743>>,
    <<11363, 11363, 1, -3814>>, <<11364, 11364, 1, -10727>>, <<11367, 11371, 2, 1>>, <<11373, 11373, 1, -10780>>,
    <<11374, 11374, 1, -10749>>, <<11375, 11375, 1, -10783>>, <<11376, 11376, 1, -10782>>, <<11378, 11378, 1, 1>>,
    <<11381, 11381, 1, 1>>, <<11390, 11391, 1, -10815>>, <<11392, 11490, 2, 1>>, <<11499, 11501, 2, 1>>,
    <<11506, 11506, 1, 1>>, <<42560, 42604, 2, 1>>, <<42624, 42650, 2, 1>>, <<42786, 42798, 2, 1>>,
    <<42802, 42862, 2, 1>>, <<42873, 42875, 2, 1>>, <<42877, 42877, 1, -35332>>, <<42878, 42886, 2, 1>>,
    <<42891, 42891, 1, 1>>, <<42893, 42893, 1, -42280>>, <<42896, 42898, 2, 1>>, <<42902, 42920, 2, 1>>,
    <<42922, 42922, 1, -42308>>, <<42923, 42923, 1, -42319>>, <<42924, 42924, 1, -42315>>, <<42925, 42925, 1, -42305>>,
    <<42926, 42926, 1, -42308>>, <<42928, 42928, 1, -42258>>, <<42929, 42929, 1, -42282>>, <<42930, 42930, 1, -42261>>,
    <<42931, 42931, 1, 928>>, <<42932, 42946, 2, 1>>, <<42948, 42948, 1, -48>>, <<42949, 42949, 1, -42307>>,
    <<42950, 42950, 1, -35384>>, <<42951, 42953, 2, 1>>, <<42960, 42960, 1, 1>>, <<42966, 42968, 2, 1>>,
    <<42997, 42997, 1, 1>>, <<65313, 65338, 1, 32>>, <<66560, 66599, 1, 40>>, <<66736, 66771, 1, 40>>,
    <<66928, 66938, 1, 39>>, <<66940, 66954, 1, 39>>, <<66956, 66962, 1, 39>>, <<66964, 66965, 1, 39>>,
    <<68736, 68786, 1, 64>>, <<71840, 71871, 1, 32>>, <<93760, 93791, 1, 32>>, <<125184, 125217, 1, 34>> >>

\* the code points with the property Case_Ignorable, as ranges <<first, last>>
CaseIgnorableRanges == <<
    <<39, 39>>, <<46, 46>>, <<58, 58>>, <<94, 94>>, <<96, 96>>,
    <<168, 168>>, <<173, 173>>, <<175, 175>>, <<180, 180>>, <<183, 184>>,
    <<688, 879>>, <<884, 885>>, <<890, 890>>, <<900, 901>>, <<903, 903>>,
    <<1155, 1161>>, <<1369, 1369>>, <<1375, 1375>>, <<1425, 1469>>, <<1471, 1471>>,
    <<1473, 1474>>, <<1476, 1477>>, <<1479, 1479>>, <<1524, 1524>>, <<1536, 1541>>,
    <<1552, 1562>>, <<1564, 1564>>, <<1600, 1600>>, <<1611, 1631>>, <<1648, 1648>>,
    <<1750, 1757>>, <<1759, 1768>>, <<1770, 1773>>, <<1807, 1807>>, <<1809, 1809>>,
    <<1840, 1866>>, <<1958, 1968>>, <<2027, 2037>>, <<2042, 2042>>, <<2045, 2045>>,
    <<2070, 2093>>, <<2137, 2139>>, <<2184, 2184>>, <<2192, 2193>>, <<2200, 2207>>,
    <<2249, 2306>>, <<2362, 2362>>, <<2364, 2364>>, <<2369, 2376>>, <<2381, 2381>>,
    <<2385, 2391>>, <<2402, 2403>>, <<2417, 2417>>, <<2433, 2433>>, <<2492, 2492>>,
    <<2497, 2500>>, <<2509, 2509>>, <<2530, 2531>>, <<2558, 2558>>, <<2561, 2562>>,
    <<2620, 2620>>, <<2625, 2626>>, <<2631, 2632>>, <<2635, 2637>>, <<2641, 2641>>,
    <<2672, 2673>>, <<2677, 2677>>, <<2689, 2690>>, <<2748, 2748>>, <<2753, 2757>>,
    <<2759, 2760>>, <<2765, 2765>>, <<2786, 2787>>, <<2810, 2815>>, <<2817, 2817>>,
    <<2876, 2876>>, <<2879, 2879>>, <<2881, 2884>>, <<2893, 2893>>, <<2901, 2902>>,
    <<2914, 2915>>, <<2946, 2946>>, <<3008, 3008>>, <<3021, 3021>>, <<3072, 3072>>,
    <<3076, 3076>>, <<3132, 3132>>, <<3134, 3136>>, <<3142, 3144>>, <<3146, 3149>>,
    <<3157, 3158>>, <<3170, 3171>>, <<3201, 3201>>, <<3260, 3260>>, <<3263, 3263>>,
    <<3270, 3270>>, <<3276, 3277>>, <<3298, 3299>>, <<3328, 3329>>, <<3387, 3388>>,
    <<3393, 3396>>, <<3405, 3405>>, <<3426, 3427>>, <<3457, 3457>>, <<3530, 3530>>,
    <<3538, 3540>>, <<3542, 3542>>, <<3633, 3633>>, <<3636, 3642>>, <<3654, 3662>>,
    <<3761, 3761>>, <<3764, 3772>>, <<3782, 3782>>, <<3784, 3789>>, <<3864, 3865>>,
    <<3893, 3893>>, <<3895, 3895>>, <<3897, 3897>>, <<3953, 3966>>, <<3968, 3972>>,
    <<3974, 3975>>, <<3981, 3991>>, <<3993, 4028>>, <<4038, 4038>>, <<4141, 4144>>,
    <<4146, 4151>>, <<4153, 4154>>, <<4157, 4158>>, <<4184, 4185>>, <<4190, 4192>>,
    <<4209, 4212>>, <<4226, 4226>>, <<4229, 4230>>, <<4237, 4237>>, <<4253, 4253>>,
    <<4348, 4348>>, <<4957, 4959>>, <<5906, 5908>>, <<5938, 5939>>, <<5970, 5971>>,
    <<6002, 6003>>, <<6068, 6069>>, <<6071, 6077>>, <<6086, 6086>>, <<6089, 6099>>,
    <<6103, 6103>>, <<6109, 6109>>, <<6155, 6159>>, <<6211, 6211>>, <<6277, 6278>>,
    <<6313, 6313>>, <<6432, 6434>>, <<6439, 6440>>, <<6450, 6450>>, <<6457, 6459>>,
    <<6679, 6680>>, <<6683, 6683>>, <<6742, 6742>>, <<6744, 6750>>, <<6752, 6752>>,
    <<6754, 6754>>, <<6757, 6764>>, <<6771, 6780>>, <<6783, 6783>>, <<6823, 6823>>,
    <<6832, 6862>>, <<6912, 6915>>, <<6964, 6964>>, <<6966, 6970>>, <<6972, 6972>>,
    <<6978, 6978>>, <<7019, 7027>>, <<7040, 7041>>, <<7074, 7077>>, <<7080, 7081>>,
    <<7083, 7085>>, <<7142, 7142>>, <<7144, 7145>>, <<7149, 7149>>, <<7151, 7153>>,
    <<7212, 7219>>, <<7222, 7223>>, <<7288, 7293>>, <<7376, 7378>>, <<7380, 7392>>,
    <<7394, 7400>>, <<7405, 7405>>, <<7412, 7412>>, <<7416, 7417>>, <<7468, 7530>>,
    <<7544, 7544>>, <<7579, 7679>>, <<8125, 8125>>, <<8127, 8129>>, <<8141, 8143>>,
    <<8157, 8159>>, <<8173, 8175>>, <<8189, 8190>>, <<8203, 8207>>, <<8216, 8217>>,
    <<8228, 8228>>, <<8231, 8231>>, <<8234, 8238>>, <<8288, 8292>>, <<8294, 8303>>,
    <<8305, 8305>>, <<8319, 8319>>, <<8336, 8348>>, <<8400, 8432>>, <<11388, 11389>>,
    <<11503, 11505>>, <<11631, 11631>>, <<11647, 11647>>, <<11744, 11775>>, <<11823, 11823>>,
    <<12293, 12293>>, <<12330, 12333>>, <<12337, 12341>>, <<12347, 12347>>, <<12441, 12446>>,
    <<12540, 12542>>, <<40981, 40981>>, <<42232, 42237>>, <<42508, 42508>>, <<42607, 42610>>,
    <<42612, 42621>>, <<42623, 42623>>, <<42652, 42655>>, <<42736, 42737>>, <<42752, 42785>>,
    <<42864, 42864>>, <<42888, 42890>>, <<42994, 42996>>, <<43000, 43001>>, <<43010, 43010>>,
    <<43014, 43014>>, <<43019, 43019>>, <<43045, 43046>>, <<43052, 43052>>, <<43204, 43205>>,
    <<43232, 43249>>, <<43263, 43263>>, <<43302, 43309>>, <<43335, 43345>>, <<43392, 43394>>,
    <<43443, 43443>>, <<43446, 43449>>, <<43452, 43453>>, <<43471, 43471>>, <<43493, 43494>>,
    <<43561, 43566>>, <<43569, 43570>>, <<43573, 43574>>, <<43587, 43587>>, <<43596, 43596>>,
    <<43632, 43632>>, <<43644, 43644>>, <<43696, 43696>>, <<43698, 43700>>, <<43703, 43704>>,
    <<43710, 43711>>, <<43713, 43713>>, <<43741, 43741>>, <<43756, 43757>>, <<43763, 43764>>,
    <<43766, 43766>>, <<43867, 43871>>, <<43881, 43883>>, <<44005, 44005>>, <<44008, 44008>>,
    <<44013, 44013>>, <<64286, 64286>>, <<64434, 64450>>, <<65024, 65039>>, <<65043, 65043>>,
    <<65056, 65071>>, <<65106, 65106>>, <<65109, 65109>>, <<65279, 65279>>, <<65287, 65287>>,
    <<65294, 65294>>, <<65306, 65306>>, <<65342, 65342>>, <<65344, 65344>>, <<65392, 65392>>,
    <<65438, 65439>>, <<65507, 65507>>, <<65529, 65531>>, <<66045, 66045>>, <<66272, 66272>>,
    <<66422, 66426>>, <<67456, 67461>>, <<67463, 67504>>, <<67506, 67514>>, <<68097, 68099>>,
    <<68101, 68102>>, <<68108, 68111>>, <<68152, 68154>>, <<68159, 68159>>, <<68325, 68326>>,
    <<68900, 68903>>, <<69291, 69292>>, <<69446, 69456>>, <<69506, 69509>>, <<69633, 69633>>,
    <<69688, 69702>>, <<69744, 69744>>, <<69747, 69748>>, <<69759, 69761>>, <<69811, 69814>>,
    <<69817, 69818>>, <<69821, 69821>>, <<69826, 69826>>, <<69837, 69837>>, <<69888, 69890>>,
    <<69927, 69931>>, <<69933, 69940>>, <<70003, 70003>>, <<70016, 70017>>, <<70070, 70078>>,
    <<70089, 70092>>, <<70095, 70095>>, <<70191, 70193>>, <<70196, 70196>>, <<70198, 70199>>,
    <<70206, 70206>>, <<70367, 70367>>, <<70371, 70378>>, <<70400, 70401>>, <<70459, 70460>>,
    <<70464, 70464>>, <<70502, 70508>>, <<70512, 70516>>, <<70712, 70719>>, <<70722, 70724>>,
    <<70726, 70726>>, <<70750, 70750>>, <<70835, 70840>>, <<70842, 70842>>, <<70847, 70848>>,
    <<70850, 70851>>, <<71090, 71093>>, <<71100, 71101>>, <<71103, 71104>>, <<71132, 71133>>,
    <<71219, 71226>>, <<71229, 71229>>, <<71231, 71232>>, <<71339, 71339>>, <<71341, 71341>>,
    <<71344, 71349>>, <<71351, 71351>>, <<71453, 71455>>, <<71458, 71461>>, <<71463, 71467>>,
    <<71727, 71735>>, <<71737, 71738>>, <<71995, 71996>>, <<71998, 71998>>, <<72003, 72003>>,
    <<72148, 72151>>, <<72154, 72155>>, <<72160, 72160>>, <<72193, 72202>>, <<72243, 72248>>,
    <<72251, 72254>>, <<72263, 72263>>, <<72273, 72278>>, <<72281, 72283>>, <<72330, 72342>>,
    <<72344, 72345>>, <<72752, 72758>>, <<72760, 72765>>, <<72767, 72767>>, <<72850, 72871>>,
    <<72874, 72880>>, <<72882, 72883>>, <<72885, 72886>>, <<73009, 73014>>, <<73018, 73018>>,
    <<73020, 73021>>, <<73023, 73029>>, <<73031, 73031>>, <<73104, 73105>>, <<73109, 73109>>,
    <<73111, 73111>>, <<73459, 73460>>, <<78896, 78904>>, <<92912, 92916>>, <<92976, 92982>>,
    <<92992, 92995>>, <<94031, 94031>>, <<94095, 94111>>, <<94176, 94177>>, <<94179, 94180>>,
    <<110576, 110579>>, <<110581, 110587>>, <<110589, 110590>>, <<113821, 113822>>, <<113824, 113827>>,
    <<118528, 118573>>, <<118576, 118598>>, <<119143, 119145>>, <<119155, 119170>>, <<119173, 119179>>,
    <<119210, 119213>>, <<119362, 119364>>, <<121344, 121398>>, <<121403, 121452>>, <<121461, 121461>>,
    <<121476, 121476>>, <<121499, 121503>>, <<121505, 121519>>, <<122880, 122886>>, <<122888, 122904>>,
    <<122907, 122913>>, <<122915, 122916>>, <<122918, 122922>>, <<123184, 123197>>, <<123566, 123566>>,
    <<123628, 123631>>, <<125136, 125142>>, <<125252, 125259>>, <<127995, 127999>>, <<917505, 917505>>,
    <<917536, 917631>>, <<917760, 917999>> >>

\* the code points with the property Cased that are not Case_Ignorable, as
\* ranges <<first, last>>
CasedRanges == <<
    <<65, 90>>, <<97, 122>>, <<170, 170>>, <<181, 181>>, <<186, 186>>,
    <<192, 214>>, <<216, 246>>, <<248, 442>>, <<444, 447>>, <<452, 659>>,
    <<661, 687>>, <<880, 883>>, <<886, 887>>, <<891, 893>>, <<895, 895>>,
    <<902, 902>>, <<904, 906>>, <<908, 908>>, <<910, 929>>, <<931, 1013>>,
    <<1015, 1153>>, <<1162, 1327>>, <<1329, 1366>>, <<1376, 1416>>, <<4256, 4293>>,
    <<4295, 4295>>, <<4301, 4301>>, <<4304, 4346>>, <<4349, 4351>>, <<5024, 5109>>,
    <<5112, 5117>>, <<7296, 7304>>, <<7312, 7354>>, <<7357, 7359>>, <<7424, 7467>>,
    <<7531, 7543>>, <<7545, 7578>>, <<7680, 7957>>, <<7960, 7965>>, <<7968, 8005>>,
    <<8008, 8013>>, <<8016, 8023>>, <<8025, 8025>>, <<8027, 8027>>, <<8029, 8029>>,
    <<8031, 8061>>, <<8064, 8116>>, <<8118, 8124>>, <<8126, 8126>>, <<8130, 8132>>,
    <<8134, 8140>>, <<8144, 8147>>, <<8150, 8155>>, <<8160, 8172>>, <<8178, 8180>>,
    <<8182, 8188>>, <<8450, 8450>>, <<8455, 8455>>, <<8458, 8467>>, <<8469, 8469>>,
    <<8473, 8477>>, <<8484, 8484>>, <<8486, 8486>>, <<8488, 8488>>, <<8490, 8493>>,
    <<8495, 8500>>, <<8505, 8505>>, <<8508, 8511>>, <<8517, 8521>>, <<8526, 8526>>,
    <<8544, 8575>>, <<8579, 8580>>, <<9398, 9449>>, <<11264, 11387>>, <<11390, 11492>>,
    <<11499, 11502>>, <<11506, 11507>>, <<11520, 11557>>, <<11559, 11559>>, <<11565, 11565>>,
    <<42560, 42605>>, <<42624, 42651>>, <<42786, 42863>>, <<42865, 42887>>, <<42891, 42894>>,
    <<42896, 42954>>, <<42960, 42961>>, <<42963, 42963>>, <<42965, 42969>>, <<42997, 42998>>,
    <<43002, 43002>>, <<43824, 43866>>, <<43872, 43880>>, <<43888, 43967>>, <<64256, 64262>>,
    <<64275, 64279>>, <<65313, 65338>>, <<65345, 65370>>, <<66560, 66639>>, <<66736, 66771>>,
    <<66776, 66811>>, <<66928, 66938>>, <<66940, 66954>>, <<66956, 66962>>, <<66964, 66965>>,
    <<66967, 66977>>, <<66979, 66993>>, <<66995, 67001>>, <<67003, 67004>>, <<68736, 68786>>,
    <<68800, 68850>>, <<71840, 71903>>, <<93760, 93823>>, <<119808, 119892>>, <<119894, 119964>>,
    <<119966, 119967>>, <<119970, 119970>>, <<119973, 119974>>, <<119977, 119980>>, <<119982, 119993>>,
    <<119995, 119995>>, <<119997, 120003>>, <<120005, 120069>>, <<120071, 120074>>, <<120077, 120084>>,
    <<120086, 120092>>, <<120094, 120121>>, <<120123, 120126>>, <<120128, 120132>>, <<120134, 120134>>,
    <<120138, 120144>>, <<120146, 120485>>, <<120488, 120512>>, <<120514, 120538>>, <<120540, 120570>>,
    <<120572, 120596>>, <<120598, 120628>>, <<120630, 120654>>, <<120656, 120686>>, <<120688, 120712>>,
    <<120714, 120744>>, <<120746, 120770>>, <<120772, 120779>>, <<122624, 122633>>, <<122635, 122654>>,
    <<125184, 125251>>, <<127280, 127305>>, <<127312, 127337>>, <<127344, 127369>> >>

\* c is in one of the ranges <<first, last>> of table
InRanges(c, table) ==
    \E k \in 1..Len(table) : table[k][1] <= c /\ c <= table[k][2]

\* c is in the run k of LowerRuns
InLowerRun(c, k) ==
    /\ LowerRuns[k][1] <= c /\ c <= LowerRuns[k][2]
    /\ (c - LowerRuns[k][1]) % LowerRuns[k][3] = 0

\* the lower-case mapping of one code point, which is one code point or, for
\* the capital I with dot above (304), two: A-Z, then the runs of LowerRuns
ToLowerFull(c) ==
    IF c < 128 THEN (IF 65 <= c /\ c <= 90 THEN <<c + 32>> ELSE <<c>>)
    ELSE IF c = 304 THEN <<105, 775>>
    ELSE IF \E k \in 1..Len(LowerRuns) : InLowerRun(c, k)
         THEN <<c + LowerRuns[CHOOSE k \in 1..Len(LowerRuns) : InLowerRun(c, k)][4]>>
         ELSE <<c>>

\* str.lower() of the capital sigma (931) at position i of s: the final sigma
\* (962) when the nearest character before it that is not case-ignorable is
\* cased and the nearest such character after it, if any, is not; the small
\* sigma (963) otherwise
HandleCapitalSigma(s, i) ==
    LET before == {j \in 1..(i-1) : ~InRanges(s[j], CaseIgnorableRanges)}
        after  == {j \in (i+1)..Len(s) : ~InRanges(s[j], CaseIgnorableRanges)}
        last   == CHOOSE j \in before : \A k \in before : k <= j
        first  == CHOOSE j \in after : \A k \in after : j <= k
    IN  IF /\ before # {} /\ InRanges(s[last], CasedRanges)
           /\ after = {} \/ ~InRanges(s[first], CasedRanges)
        THEN 962 ELSE 963

RECURSIVE LStrip(_)
LStrip(s) ==
    IF s # <<>> /\ Head(s) \in Whitespace THEN LStrip(Tail(s)) ELSE s

RECURSIVE RStrip(_)
RStrip(s) ==
    IF s # <<>> /\ s[Len(s)] \in Whitespace
    THEN RStrip(SubSeq(s, 1, Len(s) - 1)) ELSE s

\* str.strip()
StrStrip(s) == RStrip(LStrip(s))

\* the lower-case mappings of the code points of s from position i on
RECURSIVE LowerFrom(_, _)
LowerFrom(s, i) ==
    IF i > Len(s) THEN <<>>
    ELSE (IF s[i] = 931 THEN <<HandleCapitalSigma(s, i)>> ELSE ToLowerFull(s[i]))
         \o LowerFrom(s, i + 1)

\* str.lower()
StrLower(s) == LowerFrom(s, 1)

\* str.replace(old, new) for one-character old and new
StrReplace(s, old, new) == [i \in 1..Len(s) |-> IF s[i] = old THEN new ELSE s[i]]

\* .str.strip().str.lower().str.replace(" ", "_") of one column name
NormalizeColumn(name) == StrReplace(StrLower(StrStrip(name)), SPACE, UNDERSCORE)

(***************************************************************************)
(* DataFrames: [columns: sequence of names, rows: sequence of rows], a row *)
(* being the sequence of its cells in column order.                        *)
(***************************************************************************)
\* the absent marker pandas fills in for a column a table does not have
NaN == "<NaN>"

SOURCE_FILE == Codes("source_file")

EmptyFrame == [columns |-> <<>>, rows |-> <<>>]

\* temp_df.columns = temp_df.columns.astype(str).str.strip()...
NormalizeColumns(frame) ==
    [frame EXCEPT !.columns = [i \in 1..Len(@) |-> NormalizeColumn(@[i])]]

\* faulty variant of Duplicated: TRUE at every occurrence but the last
DuplicatedKeepLast(cols) ==
    [i \in 1..Len(cols) |-> \E j \in (i+1)..Len(cols) : cols[j] = cols[i]]

\* Index.duplicated(): TRUE at every occurrence of a name but its first
Duplicated(cols) ==
    [i \in 1..Len(cols) |-> \E j \in 1..(i-1) : cols[j] = cols[i]]

\* frame.loc[:, ~frame.columns.duplicated()]
DropDuplicateColumns(frame) ==
    LET dup  == Duplicated(frame.columns)
        keep == [i \in 1..Len(dup) |-> ~dup[i]]
    IN  [columns |-> SelectByMask(frame.columns, keep),
         rows    |-> [r \in 1..Len(frame.rows) |-> SelectByMask(frame.rows[r], keep)]]

\* frame[name] = value: overwrite the column in place, or append it
SetColumn(frame, name, value) ==
    IF name \in Range(frame.columns)
    THEN LET k == IndexOf(frame.columns, name)
         IN  [frame EXCEPT !.rows =
                 [r \in 1..Len(@) |-> [@[r] EXCEPT ![k] = value]]]
    ELSE [columns |-> Append(frame.columns, name),
          rows    |-> [r \in 1..Len(frame.rows) |-> Append(frame.rows[r], value)]]

\* the union of the tables' columns, in first-seen order
RECURSIVE UnionColumns(_)
UnionColumns(frames) ==
    IF frames = <<>> THEN <<>>
    ELSE LET before == UnionColumns(SubSeq(frames, 1, Len(frames) - 1))
             last   == frames[Len(frames)].columns
             new    == [i \in 1..Len(last) |->
                           /\ last[i] \notin Range(before)
                           /\ \A j \in 1..(i-1) : last[j] # last[i]]
         IN  before \o SelectByMask(last, new)

\* one row of a table laid out on the columns cols, NaN where it has none
Reindex(frame, row, cols) ==
    [i \in 1..Len(cols) |->
        IF cols[i] \in Range(frame.columns)
        THEN row[IndexOf(frame.columns, cols[i])]
        ELSE NaN]

RECURSIVE ConcatRows(_, _)
ConcatRows(frames, cols) ==
    IF frames = <<>> THEN <<>>
    ELSE [r \in 1..Len(Head(frames).rows) |->
              Reindex(Head(frames), Head(frames).rows[r], cols)]
         \o ConcatRows(Tail(frames), cols)

\* pd.concat(frames, ignore_index=True)
Concat(frames) ==
    LET cols == UnionColumns(frames)
    IN  [columns |-> cols, rows |-> ConcatRows(frames, cols)]

(***************************************************************************)
(* Uploaded files (st.file_uploader, lines 123-127).  A file is its name,  *)
(* the names in its header row and its data rows, each with one cell per   *)
(* header name; readable is FALSE for a file whose bytes no reader parses, *)
(* so that pd.read_csv / pd.read_excel raise.                              *)
(***************************************************************************)
FileA == [name     |-> "a.csv", readable |-> TRUE,
          header   |-> <<Codes("ID"), Codes(" Site")>>,
          rows     |-> << <<"a1","s1">>, <<"a2","s2">> >>]

FileB == [name     |-> "b.xlsx", readable |-> TRUE,
          header   |-> <<Codes("id"), Codes("Alarm"), Codes("Id ")>>,
          rows     |-> << <<"b1","x1","y1">> >>]

\* a CSV file without any line
FileE == [name |-> "e.csv", readable |-> TRUE, header |-> <<>>, rows |-> <<>>]

\* FileA as it is and in an unreadable version, FileB and FileE
UploadFiles == {FileA, [FileA EXCEPT !.readable = FALSE], FileB, FileE}

UploadBatches == SeqsUpTo(UploadFiles, MaxFiles)

\* uploaded_file.name.endswith(".csv"), line 139
IsCsv(name) == Len(name) >= 4 /\ SubSeq(name, Len(name) - 3, Len(name)) = ".csv"

\* counts[col] of a defaultdict(int)
Count(counts, col) == IF HasKey(counts, col) THEN Get(counts, col) ELSE 0

\* the label the reader gives the header cell at position i (from 0): an
\* empty cell is named "Unnamed: i"
UNNAMED == Codes("Unnamed: ")

HeaderLabel(header, i) ==
    IF header[i + 1] = <<>> THEN UNNAMED \o Digits(i) ELSE header[i + 1]

\* the order in which the reader visits the header cells: the named ones,
\* then the unnamed ones
ColLoopOrder(header) ==
    LET positions == [i \in 1..Len(header) |-> i]
    IN  SelectSeq(positions, LAMBDA i : header[i] # <<>>)
        \o SelectSeq(positions, LAMBDA i : header[i] = <<>>)

\* the reader's renaming of a repeated label old_col: old_col.1, old_col.2,
\* ..., the first that is no label yet; the result is the label, its count and
\* the counts
RECURSIVE MangleWhile(_, _, _, _, _)
MangleWhile(old_col, col, cur_count, counts, this_columns) ==
    IF cur_count > 0
    THEN LET counts1 == Put(counts, old_col, cur_count + 1)
             col1    == old_col \o <<DOT>> \o Digits(cur_count)
             cur1    == IF col1 \in Range(this_columns) THEN cur_count + 1
                        ELSE Count(counts1, col1)
         IN  MangleWhile(old_col, col1, cur1, counts1, this_columns)
    ELSE [col |-> col, cur_count |-> cur_count, counts |-> counts]

RECURSIVE MangleLoop(_, _, _)
MangleLoop(order, this_columns, counts) ==
    IF order = <<>> THEN this_columns
    ELSE LET i == Head(order)
             m == MangleWhile(this_columns[i], this_columns[i],
                              Count(counts, this_columns[i]), counts, this_columns)
         IN  MangleLoop(Tail(order), [this_columns EXCEPT ![i] = m.col],
                        Put(m.counts, m.col, m.cur_count + 1))

\* the column labels pandas' readers give a header row: no label twice, a
\* repeated name X becomes X.1, X.2, ...
MangleDupeCols(header) ==
    MangleLoop(ColLoopOrder(header),
               [i \in 1..Len(header) |-> HeaderLabel(header, i - 1)], {})

\* pd.read_csv raises (EmptyDataError) on a file without columns; both
\* readers raise on a file they cannot parse
ReadRaises(f) == ~f.readable \/ (IsCsv(f.name) /\ f.header = <<>>)

\* pd.read_csv(..., sep=None, on_bad_lines="skip") / pd.read_excel(...):
\* the table parsed from a file that is read
ReadFile(f) == [columns |-> MangleDupeCols(f.header), rows |-> f.rows]

\* body of the try block, lines 139-161, for a file that was read
ProcessFile(f) ==
    SetColumn(DropDuplicateColumns(NormalizeColumns(ReadFile(f))),
              SOURCE_FILE, f.name)

\* lines 174-176
Merge(frames) == DropDuplicateColumns(Concat(frames))

(***************************************************************************)
(* Oracle output (predict_future_faults, line 189) and the filters.        *)
(***************************************************************************)
PredictionColumns == <<"Site", "Location", "Fault", "Probability (%)", "Risk Level",
                       "Possible Cause", "Recommendation", "Team">>

\* options of the risk multiselect, line 210
RISK_OPTIONS == {"HIGH", "MEDIUM", "LOW"}

Rec(site, fault, prob, risk) ==
    [Site |-> site, Location |-> "loc", Fault |-> fault, Probability |-> prob,
     Risk_Level |-> risk, Possible_Cause |-> "cause", Recommendation |-> "rec",
     Team |-> "team"]

R1 == Rec("A", "Power", 90, "HIGH")
R2 == Rec("B", "Link", 10, "LOW")
R3 == Rec("A", "Link", 50, "MEDIUM")
\* records the oracle may return as well: a probability above 100, a risk
\* level that is none of the three options
R4 == Rec("B", "Power", 150, "HIGH")
R5 == Rec("B", "Link", 20, "CRITICAL")

OracleRecords == {R1, R2, R3, R4, R5}

\* options of the site multiselect, line 205
SiteOptions(rows) == {rows[i].Site : i \in 1..Len(rows)}

\* what st.multiselect of line 203 can return: a selection among the options
\* when the user had this multiselect on the page, nothing (no default is
\* given) when it is new on the page
SiteSelections(rows, widgets) ==
    IF SiteOptions(rows) \in widgets THEN SUBSET SiteOptions(rows) ELSE {{}}

\* what st.multiselect of line 208 can return: a selection when the user had
\* it on the page, its default when it is new on the page
RiskSelections(on_page) ==
    IF on_page THEN SUBSET RISK_OPTIONS ELSE {RISK_OPTIONS}

\* lines 216-219
FilterSites(rows, sites) ==
    IF sites # {} THEN SelectSeq(rows, LAMBDA r : r.Site \in sites) ELSE rows

\* lines 221-224
FilterRisk(rows, risks) ==
    IF risks # {} THEN SelectSeq(rows, LAMBDA r : r.Risk_Level \in risks) ELSE rows

\* lines 214-224
ApplyFilters(rows, sites, risks) == FilterRisk(FilterSites(rows, sites), risks)

(***************************************************************************)
(* Chart inputs, lines 270-275 and 299-304.                                *)
(***************************************************************************)
\* the number of rows with the value v in the "Risk Level" / "Site" column
CountRisk(rows, v) == Cardinality({i \in 1..Len(rows) : rows[i].Risk_Level = v})
CountSite(rows, v) == Cardinality({i \in 1..Len(rows) : rows[i].Site = v})

\* filtered_df["Risk Level"].value_counts().reset_index(): one (level, count)
\* row per level that occurs
ValueCounts(rows) ==
    {<<lvl, CountRisk(rows, lvl)>> :
        lvl \in {rows[i].Risk_Level : i \in 1..Len(rows)}}

\* filtered_df.groupby("Site").size().reset_index(name="Risk Count")
GroupBySiteSize(rows) ==
    {<<s, CountSite(rows, s)>> :
        s \in {rows[i].Site : i \in 1..Len(rows)}}

(***************************************************************************)
(* to_html / to_csv renderings of the filtered table.                      *)
(***************************************************************************)
Line(r) == <<r.Site, r.Location, r.Fault, ToString(r.Probability), r.Risk_Level,
             r.Possible_Cause, r.Recommendation, r.Team>>

\* df.to_html(index=False), line 100
ToHtml(rows) == [header |-> PredictionColumns,
                 body   |-> [i \in 1..Len(rows) |-> Line(rows[i])]]

\* filtered_df.to_csv(index=False).encode("utf-8"), line 343
ToCsv(rows) == <<PredictionColumns>> \o [i \in 1..Len(rows) |-> Line(rows[i])]

(***************************************************************************)
(* Secrets (get_secret, lines 79-82) and the SMTP transport.  st.secrets   *)
(* is read from a secrets.toml file, which a deployment may not have;      *)
(* st.secrets and os.environ may each lack any key.                        *)
(***************************************************************************)
\* what os.getenv returns for a variable that is not set
None == "<None>"

SecretKeys == {"EMAIL_USER", "EMAIL_PASS", "EMAIL_GROUP"}

FullSecrets == {<<"EMAIL_USER", "bot@x">>, <<"EMAIL_PASS", "pw">>,
                <<"EMAIL_GROUP", "ops@x,noc@x">>}

Without(m, k) == {p \in m : p[1] # k}

\* a secrets.toml without any key, nothing in the environment
NoSecrets == [secrets_file |-> TRUE, st_secrets |-> {}, environ |-> {}]

\* every secret set in st.secrets
SecretConfigs_Full == [secrets_file |-> TRUE, st_secrets |-> FullSecrets, environ |-> {}]

\* the configurations with a secrets.toml: its keys and those of the process
\* environment
SecretConfigs_File ==
    {SecretConfigs_Full,
     [secrets_file |-> TRUE, st_secrets |-> {}, environ |-> FullSecrets],
     [secrets_file |-> TRUE, st_secrets |-> Without(FullSecrets, "EMAIL_PASS"),
      environ      |-> {<<"EMAIL_PASS", "pw">>}],
     NoSecrets,
     [secrets_file |-> TRUE, st_secrets |-> Put(FullSecrets, "EMAIL_GROUP", ""),
      environ      |-> FullSecrets],
     [secrets_file |-> TRUE, st_secrets |-> Put(FullSecrets, "EMAIL_GROUP", "ops@x"),
      environ      |-> {}],
     [secrets_file |-> TRUE,
      st_secrets   |-> Put(FullSecrets, "EMAIL_GROUP", "ops@x, noc@x,"),
      environ      |-> {}]}
    \cup {[secrets_file |-> TRUE, st_secrets |-> Without(FullSecrets, k),
           environ |-> {}] : k \in SecretKeys}

\* the configurations without a secrets.toml (a local run): the secrets are in
\* the process environment, all of them, all but one, or none
SecretConfigs_NoFile ==
    {[secrets_file |-> FALSE, st_secrets |-> {}, environ |-> FullSecrets],
     [secrets_file |-> FALSE, st_secrets |-> {},
      environ      |-> Without(FullSecrets, "EMAIL_PASS")],
     [secrets_file |-> FALSE, st_secrets |-> {}, environ |-> {}]}

SecretConfigs == SecretConfigs_File \cup SecretConfigs_NoFile

\* what get_secret gives when `key in st.secrets` raises: without a
\* secrets.toml st.secrets cannot be loaded, and the membership test of line
\* 80 raises the error of the load (a FileNotFoundError), which nothing in the
\* script catches
SecretNotFound == "<StreamlitSecretNotFoundError>"

get_secret(cfg, key) ==
    IF ~cfg.secrets_file THEN SecretNotFound
    ELSE IF HasKey(cfg.st_secrets, key) THEN Get(cfg.st_secrets, key)
    ELSE IF HasKey(cfg.environ, key) THEN Get(cfg.environ, key)
    ELSE None

\* Python truthiness of a secret: None and the empty string are false
Truthy(v) == v \notin {None, ""}

\* receivers_raw.split(","): the pieces of raw between its commas
RECURSIVE SplitComma(_)
SplitComma(raw) ==
    IF \E i \in 1..Len(raw) : SubSeq(raw, i, i) = ","
    THEN LET k == CHOOSE i \in 1..Len(raw) :
                     /\ SubSeq(raw, i, i) = ","
                     /\ \A j \in 1..(i-1) : SubSeq(raw, j, j) # ","
         IN  <<SubSeq(raw, 1, k - 1)>> \o SplitComma(SubSeq(raw, k + 1, Len(raw)))
    ELSE <<raw>>

\* ", ".join(receivers)
RECURSIVE JoinComma(_)
JoinComma(receivers) ==
    IF receivers = <<>> THEN ""
    ELSE IF Len(receivers) = 1 THEN receivers[1]
    ELSE receivers[1] \o ", " \o JoinComma(Tail(receivers))

\* the calls of lines 109-113, in order
SmtpSteps == <<"SMTP", "starttls", "login", "sendmail", "quit">>

\* the step that raises, or "none"
TransportOutcomes == {"none"} \cup Range(SmtpSteps)

\* the SMTP calls that returned before the one that raised
StepsDone(fail) ==
    IF fail = "none" THEN SmtpSteps
    ELSE SubSeq(SmtpSteps, 1, IndexOf(SmtpSteps, fail) - 1)

\* the MIME message of lines 102-106
Message(rows, sender, receivers) ==
    [From    |-> sender,
     To      |-> JoinComma(receivers),
     Subject |-> "Future Fault Prediction Report",
     html    |-> ToHtml(rows)]

\* send_email_report, lines 88-117: what one call does and returns
send_email_report(rows, cfg, fail) ==
    LET sender_email    == get_secret(cfg, "EMAIL_USER")
        sender_password == get_secret(cfg, "EMAIL_PASS")
        receivers_raw   == get_secret(cfg, "EMAIL_GROUP")
        \* line 90: the first get_secret raises, the call does not return
        raised          == sender_email = SecretNotFound
        configured      == /\ ~raised
                           /\ Truthy(sender_email)
                           /\ Truthy(sender_password)
                           /\ Truthy(receivers_raw)
    IN  [\* the table the caller passed
         df         |-> rows,
         raised     |-> raised,
         configured |-> configured,
         \* st.warning("Email secrets not configured. Skipping email.")
         warned     |-> ~raised /\ ~configured,
         \* receivers, line 98: the addresses handed to sendmail
         receivers  |-> IF configured THEN SplitComma(receivers_raw) ELSE <<>>,
         \* the messages built, lines 100-106
         messages   |-> IF configured
                        THEN <<Message(rows, sender_email, SplitComma(receivers_raw))>>
                        ELSE <<>>,
         \* whether the try block, lines 108-113, was entered
         attempted  |-> configured,
         \* the smtplib calls that returned
         steps      |-> IF configured THEN StepsDone(fail) ELSE <<>>,
         result     |-> configured /\ fail = "none"]

(***************************************************************************)
(* State.  A variable of the script that the current run has not assigned  *)
(* yet holds its empty value; pc tells how far the run is.                 *)
(***************************************************************************)
VARIABLES
    session_state,   \* st.session_state: the set of its (key, value) pairs
    site_widgets,    \* the site multiselects on the page, each as the set of its
                     \* options
    risk_widget,     \* whether the risk-level multiselect is on the page
    deliveries,      \* sendmail calls that returned, over the whole session
    pc,              \* the point (st.* call, st.session_state access) the current
                     \* run has reached, or how it ended
    exception,       \* the call of the current run that raised an exception no
                     \* handler of the script catches, or "none"
    uploaded_files,  \* line 123
    uploaded_file,   \* line 137: the position of the loop's file in uploaded_files
    read_errors,     \* file names reported by st.error, line 167
    all_dfs,         \* line 135
    df,              \* line 174-176
    oracle_input,    \* the tables handed to predict_future_faults in this run
    results,         \* line 189
    results_df,      \* line 195
    site_filter,     \* line 203
    risk_filter,     \* line 208
    filtered_df,     \* line 214-224
    risk_count,      \* line 270
    site_risk,       \* line 299
    ui,              \* st.warning / st.success texts of this run, in order
    secrets,         \* st.secrets and os.environ as send_email_report read them
    email_calls,     \* the calls of send_email_report that returned in this run
                     \* (a call that raised is recorded in exception)
    download,        \* the st.download_button artifacts of this run
    session_start,   \* st.session_state as the current run found it
    interrupted_at   \* the point at which a rerun request unwound the current
                     \* run, or "none"

sessionVars == <<session_state, deliveries>>
widgetVars  == <<site_widgets, risk_widget>>
ingestVars  == <<uploaded_files, uploaded_file, read_errors, all_dfs, df>>
oracleVars  == <<oracle_input, results, results_df>>
filterVars  == <<site_filter, risk_filter, filtered_df>>
chartVars   == <<risk_count, site_risk>>
outputVars  == <<secrets, email_calls, download>>
startVars   == <<session_start, interrupted_at, exception>>

vars == <<session_state, site_widgets, risk_widget, deliveries, pc, uploaded_files,
          uploaded_file, read_errors, all_dfs, df, oracle_input, results, results_df,
          site_filter, risk_filter, filtered_df, risk_count, site_risk, ui, secrets,
          email_calls, download, session_start, interrupted_at, exception>>

\* a fresh session: the script has run once, with the uploader still empty
Init ==
    /\ session_state = {}
    /\ site_widgets = {}
    /\ risk_widget = FALSE
    /\ deliveries = 0
    /\ pc = "idle"
    /\ uploaded_files = <<>>
    /\ uploaded_file = 0
    /\ read_errors = <<>>
    /\ all_dfs = <<>>
    /\ df = EmptyFrame
    /\ oracle_input = <<>>
    /\ results = <<>>
    /\ results_df = <<>>
    /\ site_filter = {}
    /\ risk_filter = {}
    /\ filtered_df = <<>>
    /\ risk_count = {}
    /\ site_risk = {}
    /\ ui = <<>>
    /\ secrets = NoSecrets
    /\ email_calls = <<>>
    /\ download = <<>>
    /\ session_start = {}
    /\ interrupted_at = "none"
    /\ exception = "none"

\* the st.* calls of the script and its accesses to st.session_state, in the
\* order in which a run reaches them.  A call stands for the calls that follow
\* it up to the next assignment as well: line 22 for 25 and 123, line 179 for
\* 181 and the entry of st.spinner (188), line 201 for 203, line 234 for 235,
\* 241, 244, 264 and 268, line 293 for 297, line 339 for 341.
Points == <<"st.set_page_config@22", "st.error@167", "st.exception@168",
            "st.warning@171", "st.success@178", "st.subheader@179",
            "st.spinner.exit@189", "st.warning@192", "st.subheader@201",
            "st.multiselect@208", "st.warning@227", "st.subheader@234",
            "st.altair_chart@293", "st.altair_chart@317",
            "st.session_state@323", "st.session_state@324",
            "st.session_state@326", "st.warning@95", "st.success@330",
            "st.session_state@331", "st.warning@333", "st.subheader@339">>

\* no run is executing: before the first run, or after a run ended
\* ("idle": nothing uploaded, "stopped": st.stop(), "done": end of script,
\* "raised": an exception left the script, "interrupted": unwound by a
\* rerun request)
Ended == pc \in {"idle", "stopped", "done", "raised", "interrupted"}

(***************************************************************************)
(* Lines 1-22: an interaction starts a new run of the script.              *)
(***************************************************************************)
StartRun ==
    /\ Ended
    /\ deliveries < MaxDeliveries
    /\ session_start' = session_state
    /\ interrupted_at' = "none"
    /\ exception' = "none"
    /\ uploaded_files' = <<>>
    /\ uploaded_file' = 0
    /\ read_errors' = <<>>
    /\ all_dfs' = <<>>
    /\ df' = EmptyFrame
    /\ oracle_input' = <<>>
    /\ results' = <<>>
    /\ results_df' = <<>>
    /\ site_filter' = {}
    /\ risk_filter' = {}
    /\ filtered_df' = <<>>
    /\ risk_count' = {}
    /\ site_risk' = {}
    /\ ui' = <<>>
    /\ secrets' = NoSecrets
    /\ email_calls' = <<>>
    /\ download' = <<>>
    /\ pc' = "st.set_page_config@22"
    /\ UNCHANGED <<sessionVars, widgetVars>>

(***************************************************************************)
(* Lines 133-181: the loop reads and normalises each file, the tables that *)
(* were read are merged.                                                   *)
(***************************************************************************)
\* the for loop of lines 137-168 after k of the files, and lines 170-176 after
\* it: the files that are read are appended to all_dfs up to the first that
\* raises, which is reported (line 167); when no file is left the tables are
\* merged, or the warning of line 171 is reached
IngestFrom(files, k) ==
    LET raising == {j \in (k+1)..Len(files) : ReadRaises(files[j])}
        stop    == IF raising = {} THEN Len(files) + 1
                   ELSE CHOOSE j \in raising : \A i \in raising : j <= i
        tables  == [i \in 1..(stop - 1 - k) |-> ProcessFile(files[k + i])]
    IN  /\ all_dfs' = all_dfs \o tables
        /\ IF stop <= Len(files)
           THEN /\ uploaded_file' = stop
                /\ df' = df
                /\ pc' = "st.error@167"
           ELSE /\ uploaded_file' = Len(files)
                /\ IF all_dfs' = <<>>
                   THEN df' = df /\ pc' = "st.warning@171"
                   ELSE df' = Merge(all_dfs') /\ pc' = "st.success@178"

\* lines 22-176: st.file_uploader returns the uploaded files and the loop
\* starts
MainLogic(files) ==
    /\ pc = "st.set_page_config@22"
    /\ uploaded_files' = files
    /\ IF files = <<>>
       THEN \* line 133: nothing uploaded, the script ends here
            /\ pc' = "idle"
            /\ site_widgets' = {}
            /\ risk_widget' = FALSE
            /\ UNCHANGED <<uploaded_file, all_dfs, df>>
       ELSE /\ IngestFrom(files, 0)
            /\ UNCHANGED widgetVars
    /\ UNCHANGED <<sessionVars, read_errors, oracleVars, filterVars, chartVars,
                   outputVars, ui, startVars>>

\* line 167
StError ==
    /\ pc = "st.error@167"
    /\ read_errors' = Append(read_errors, uploaded_files[uploaded_file].name)
    /\ pc' = "st.exception@168"
    /\ UNCHANGED <<sessionVars, widgetVars, uploaded_files, uploaded_file, all_dfs, df,
                   oracleVars, filterVars, chartVars, outputVars, ui, startVars>>

\* faulty variant of StException: the file that raises ends the loop
StExceptionBreak ==
    /\ pc = "st.exception@168"
    /\ IngestFrom(uploaded_files, Len(uploaded_files))
    /\ UNCHANGED <<sessionVars, widgetVars, uploaded_files, read_errors, oracleVars,
                   filterVars, chartVars, outputVars, ui, startVars>>

\* line 168, and the loop goes on with the next file
StException ==
    /\ pc = "st.exception@168"
    /\ IngestFrom(uploaded_files, uploaded_file)
    /\ UNCHANGED <<sessionVars, widgetVars, uploaded_files, read_errors, oracleVars,
                   filterVars, chartVars, outputVars, ui, startVars>>

\* lines 171-172: the warning, and st.stop() ends the run; the multiselects,
\* which this run did not render, leave the page
NoValidFilesStop ==
    /\ pc = "st.warning@171"
    /\ ui' = Append(ui, "No valid files uploaded.")
    /\ pc' = "stopped"
    /\ site_widgets' = {}
    /\ risk_widget' = FALSE
    /\ UNCHANGED <<sessionVars, ingestVars, oracleVars, filterVars, chartVars,
                   outputVars, startVars>>

\* line 178
LoadedSuccess ==
    /\ pc = "st.success@178"
    /\ ui' = Append(ui, ToString(Len(uploaded_files)) \o " file(s) loaded successfully.")
    /\ pc' = "st.subheader@179"
    /\ UNCHANGED <<sessionVars, widgetVars, ingestVars, oracleVars, filterVars,
                   chartVars, outputVars, startVars>>

(***************************************************************************)
(* Lines 179-195: the oracle is called once with the merged table.         *)
(***************************************************************************)
\* lines 179-189: predict_future_faults returns res
RunPrediction(res) ==
    /\ pc = "st.subheader@179"
    /\ oracle_input' = Append(oracle_input, df)
    /\ results' = res
    /\ pc' = "st.spinner.exit@189"
    /\ UNCHANGED <<sessionVars, widgetVars, ingestVars, results_df, filterVars,
                   chartVars, outputVars, ui, startVars>>

\* lines 179-189: predict_future_faults raises; no handler is around line 189,
\* the exception leaves the with block through the exit of st.spinner
RunPredictionRaises ==
    /\ pc = "st.subheader@179"
    /\ oracle_input' = Append(oracle_input, df)
    /\ exception' = "predict_future_faults@189"
    /\ pc' = "st.spinner.exit@189"
    /\ UNCHANGED <<sessionVars, widgetVars, ingestVars, results, results_df,
                   filterVars, chartVars, outputVars, ui, session_start,
                   interrupted_at>>

\* the exit of st.spinner and lines 191-195; when the oracle raised, its
\* exception ends the run here, and the multiselects, which this run did not
\* render, leave the page
SpinnerExit ==
    /\ pc = "st.spinner.exit@189"
    /\ IF exception # "none"
       THEN /\ pc' = "raised"
            /\ site_widgets' = {}
            /\ risk_widget' = FALSE
            /\ results_df' = results_df
       ELSE /\ UNCHANGED widgetVars
            /\ IF results = <<>>
               THEN results_df' = results_df /\ pc' = "st.warning@192"
               ELSE results_df' = results /\ pc' = "st.subheader@201"
    /\ UNCHANGED <<sessionVars, ingestVars, oracle_input, results,
                   filterVars, chartVars, outputVars, ui, startVars>>

\* faulty variant of NoRiskStop: no st.stop() on an empty result
NoRiskNoStop ==
    /\ pc = "st.warning@192"
    /\ ui' = Append(ui, "No significant future fault risk detected.")
    /\ pc' = "st.subheader@201"
    /\ UNCHANGED <<sessionVars, widgetVars, ingestVars, oracleVars, filterVars,
                   chartVars, outputVars, startVars>>

\* lines 192-193
NoRiskStop ==
    /\ pc = "st.warning@192"
    /\ ui' = Append(ui, "No significant future fault risk detected.")
    /\ pc' = "stopped"
    /\ site_widgets' = {}
    /\ risk_widget' = FALSE
    /\ UNCHANGED <<sessionVars, ingestVars, oracleVars, filterVars, chartVars,
                   outputVars, startVars>>

(***************************************************************************)
(* Lines 201-228: the two multiselects and the filtered table.             *)
(***************************************************************************)
\* lines 201-206: the site multiselect returns sites
SiteMultiselect(sites) ==
    /\ pc = "st.subheader@201"
    /\ sites \in SiteSelections(results_df, site_widgets)
    /\ site_widgets' = site_widgets \cup {SiteOptions(results_df)}
    /\ site_filter' = sites
    /\ pc' = "st.multiselect@208"
    /\ UNCHANGED <<sessionVars, risk_widget, ingestVars, oracleVars, risk_filter,
                   filtered_df, chartVars, outputVars, ui, startVars>>

\* lines 208-226: the risk-level multiselect returns risks, the table is
\* filtered
RiskMultiselect(risks) ==
    /\ pc = "st.multiselect@208"
    /\ risks \in RiskSelections(risk_widget)
    /\ risk_widget' = TRUE
    /\ risk_filter' = risks
    /\ filtered_df' = ApplyFilters(results_df, site_filter, risks)
    /\ pc' = IF filtered_df' = <<>> THEN "st.warning@227" ELSE "st.subheader@234"
    /\ UNCHANGED <<sessionVars, site_widgets, ingestVars, oracleVars, site_filter,
                   chartVars, outputVars, ui, startVars>>

\* faulty variant of NoMatchStop: no st.stop() on an empty filtered table
NoMatchNoStop ==
    /\ pc = "st.warning@227"
    /\ ui' = Append(ui, "No results match selected filters.")
    /\ pc' = "st.subheader@234"
    /\ UNCHANGED <<sessionVars, widgetVars, ingestVars, oracleVars, filterVars,
                   chartVars, outputVars, startVars>>

\* lines 227-228; the multiselects of this run stay on the page
NoMatchStop ==
    /\ pc = "st.warning@227"
    /\ ui' = Append(ui, "No results match selected filters.")
    /\ pc' = "stopped"
    /\ site_widgets' = {SiteOptions(results_df)}
    /\ UNCHANGED <<sessionVars, risk_widget, ingestVars, oracleVars, filterVars,
                   chartVars, outputVars, startVars>>

(***************************************************************************)
(* Lines 234-317: the table and the data of the three charts.              *)
(***************************************************************************)
\* lines 234-293: the table, the probability chart and risk_count
TableAndRiskCount ==
    /\ pc = "st.subheader@234"
    /\ risk_count' = ValueCounts(filtered_df)
    /\ pc' = "st.altair_chart@293"
    /\ UNCHANGED <<sessionVars, widgetVars, ingestVars, oracleVars, filterVars,
                   site_risk, outputVars, ui, startVars>>

\* lines 293-304: the pie chart and site_risk
SiteRiskCount ==
    /\ pc = "st.altair_chart@293"
    /\ site_risk' = GroupBySiteSize(filtered_df)
    /\ pc' = "st.altair_chart@317"
    /\ UNCHANGED <<sessionVars, widgetVars, ingestVars, oracleVars, filterVars,
                   risk_count, outputVars, ui, startVars>>

\* line 317: the site chart
SiteChart ==
    /\ pc = "st.altair_chart@317"
    /\ pc' = "st.session_state@323"
    /\ UNCHANGED <<sessionVars, widgetVars, ingestVars, oracleVars, filterVars,
                   chartVars, outputVars, ui, startVars>>

(***************************************************************************)
(* Lines 323-333: the e-mail, sent while session_state.email_sent is false.*)
(***************************************************************************)
\* line 323: "email_sent" not in st.session_state
FlagTest ==
    /\ pc = "st.session_state@323"
    /\ pc' = IF HasKey(session_state, "email_sent") THEN "st.session_state@326"
             ELSE "st.session_state@324"
    /\ UNCHANGED <<sessionVars, widgetVars, ingestVars, oracleVars, filterVars,
                   chartVars, outputVars, ui, startVars>>

\* line 324: st.session_state.email_sent = False
FlagInit ==
    /\ pc = "st.session_state@324"
    /\ session_state' = Put(session_state, "email_sent", FALSE)
    /\ pc' = "st.session_state@326"
    /\ UNCHANGED <<deliveries, widgetVars, ingestVars, oracleVars, filterVars,
                   chartVars, outputVars, ui, startVars>>

\* lines 326-329: the flag is read; while it is false send_email_report is
\* called, which reads the secrets and raises at line 80, or reaches the
\* warning of line 95, or goes through the SMTP steps and returns.  The
\* exception of line 80 ends the run; the multiselects of this run stay on the
\* page
AutoEmail(cfg, fail) ==
    /\ pc = "st.session_state@326"
    /\ LET call == send_email_report(filtered_df, cfg, fail)
       IN  IF Get(session_state, "email_sent")
           THEN /\ pc' = "st.subheader@339"
                /\ UNCHANGED <<secrets, email_calls, deliveries, exception,
                               site_widgets>>
           ELSE /\ secrets' = cfg
                /\ IF call.raised
                   THEN /\ exception' = "st.secrets@80"
                        /\ pc' = "raised"
                        /\ site_widgets' = {SiteOptions(results_df)}
                        /\ UNCHANGED <<email_calls, deliveries>>
                   ELSE /\ UNCHANGED <<exception, site_widgets>>
                        /\ IF ~call.configured
                           THEN /\ pc' = "st.warning@95"
                                /\ UNCHANGED <<email_calls, deliveries>>
                           ELSE /\ email_calls' = Append(email_calls, call)
                                /\ deliveries' = deliveries
                                      + (IF "sendmail" \in Range(call.steps)
                                         THEN 1 ELSE 0)
                                /\ pc' = IF call.result THEN "st.success@330"
                                         ELSE "st.warning@333"
    /\ UNCHANGED <<session_state, risk_widget, ingestVars, oracleVars, filterVars,
                   chartVars, download, ui, session_start, interrupted_at>>

\* lines 95-96 and 329: the warning, and send_email_report returns False
SecretsWarning ==
    /\ pc = "st.warning@95"
    /\ ui' = Append(ui, "Email secrets not configured. Skipping email.")
    /\ email_calls' = Append(email_calls, send_email_report(filtered_df, secrets, "none"))
    /\ pc' = "st.warning@333"
    /\ UNCHANGED <<sessionVars, widgetVars, ingestVars, oracleVars, filterVars,
                   chartVars, secrets, download, startVars>>

\* line 330
EmailSuccess ==
    /\ pc = "st.success@330"
    /\ ui' = Append(ui, "Report emailed automatically to group.")
    /\ pc' = "st.session_state@331"
    /\ UNCHANGED <<sessionVars, widgetVars, ingestVars, oracleVars, filterVars,
                   chartVars, outputVars, startVars>>

\* line 331: st.session_state.email_sent = True
FlagWrite ==
    /\ pc = "st.session_state@331"
    /\ session_state' = Put(session_state, "email_sent", TRUE)
    /\ pc' = "st.subheader@339"
    /\ UNCHANGED <<deliveries, widgetVars, ingestVars, oracleVars, filterVars,
                   chartVars, outputVars, ui, startVars>>

\* line 333
EmailWarning ==
    /\ pc = "st.warning@333"
    /\ ui' = Append(ui, "Email not sent (check secrets configuration).")
    /\ pc' = "st.subheader@339"
    /\ UNCHANGED <<sessionVars, widgetVars, ingestVars, oracleVars, filterVars,
                   chartVars, outputVars, startVars>>

(***************************************************************************)
(* Lines 339-346: the download button with the CSV of the filtered table;  *)
(* the script ends.                                                        *)
(***************************************************************************)
DownloadReport ==
    /\ pc = "st.subheader@339"
    /\ download' = Append(download, [file_name |-> "future_fault_report.csv",
                                     mime      |-> "text/csv",
                                     data      |-> ToCsv(filtered_df)])
    /\ pc' = "done"
    /\ site_widgets' = {SiteOptions(results_df)}
    /\ UNCHANGED <<sessionVars, risk_widget, ingestVars, oracleVars, filterVars,
                   chartVars, ui, secrets, email_calls, startVars>>

(***************************************************************************)
(* A rerun request (the user touches a widget or the uploader while the    *)
(* script runs, also while it is blocked in a reader, in the oracle or in  *)
(* smtplib) unwinds the run at the next st.* call it makes or the next     *)
(* access to st.session_state, before the call shows or returns anything   *)
(* and before the access reads or writes.  The exception it raises derives *)
(* from BaseException, so line 166 does not catch it; raised at the exit   *)
(* of st.spinner it takes the place of an exception of the oracle.  What   *)
(* the run assigned stays as it is, the page keeps its widgets; a new run  *)
(* starts.                                                                 *)
(***************************************************************************)
Running == pc \in Range(Points)

Interrupt ==
    /\ Running
    /\ interrupted_at' = pc
    /\ pc' = "interrupted"
    /\ UNCHANGED <<sessionVars, widgetVars, ingestVars, oracleVars, filterVars,
                   chartVars, outputVars, ui, session_start, exception>>

(***************************************************************************)
(* The session: runs with small inputs and every secret configuration and  *)
(* transport outcome.                                                      *)
(***************************************************************************)
SessionBatches == {<<>>, <<FileA>>, <<[FileA EXCEPT !.readable = FALSE]>>}
SessionOracle == {<<>>, <<R1>>, <<R1, R2>>}
SessionSiteFilters == {{}, {"A"}}
SessionRiskFilters == {RISK_OPTIONS, {"LOW"}}

Next ==
    \/ StartRun
    \/ \E files \in SessionBatches : MainLogic(files)
    \/ StError
    \/ StException
    \/ NoValidFilesStop
    \/ LoadedSuccess
    \/ \E res \in SessionOracle : RunPrediction(res)
    \/ RunPredictionRaises
    \/ SpinnerExit
    \/ NoRiskStop
    \/ \E sites \in SessionSiteFilters : SiteMultiselect(sites)
    \/ \E risks \in SessionRiskFilters : RiskMultiselect(risks)
    \/ NoMatchStop
    \/ TableAndRiskCount
    \/ SiteRiskCount
    \/ SiteChart
    \/ FlagTest
    \/ FlagInit
    \/ \E cfg \in SecretConfigs, fail \in TransportOutcomes : AutoEmail(cfg, fail)
    \/ SecretsWarning
    \/ EmailSuccess
    \/ FlagWrite
    \/ EmailWarning
    \/ DownloadReport
    \/ Interrupt

Spec == Init /\ [][Next]_vars

(***************************************************************************)
(* Ingestion: runs over every batch of readable and unreadable files.      *)
(***************************************************************************)
IngestOracle == {<<>>, <<R1>>}

NextIngest ==
    \/ StartRun
    \/ \E files \in UploadBatches : MainLogic(files)
    \/ StError
    \/ StException
    \/ NoValidFilesStop
    \/ LoadedSuccess
    \/ \E res \in IngestOracle : RunPrediction(res)
    \/ RunPredictionRaises
    \/ SpinnerExit
    \/ NoRiskStop
    \/ SiteMultiselect({})
    \/ RiskMultiselect(RISK_OPTIONS)
    \/ TableAndRiskCount
    \/ SiteRiskCount
    \/ SiteChart
    \/ FlagTest
    \/ FlagInit
    \/ \E fail \in {"none", "SMTP"} : AutoEmail(SecretConfigs_Full, fail)
    \/ EmailSuccess
    \/ FlagWrite
    \/ EmailWarning
    \/ DownloadReport
    \/ Interrupt

SpecIngest == Init /\ [][NextIngest]_vars

(***************************************************************************)
(* Column normalisation: the ingestion of tables with every header row of  *)
(* raw column names, alone and merged in pairs.                            *)
(***************************************************************************)
\* a capital A with macron, a small one between a tab and a form feed, "a b",
\* "A_B", "Source File"
RawNames == { <<256>>,
              <<9, 257, 12>>,
              Codes("a b"),
              Codes("A_B"),
              Codes("Source File") }

\* a file with the header row header and, unless it has no column, one data
\* row, whose cell in column k is the string of k
WideFile(name, header) ==
    [name |-> name, readable |-> TRUE, header |-> header,
     rows |-> IF header = <<>> THEN <<>>
              ELSE << [k \in 1..Len(header) |-> ToString(k)] >>]

RawColumnLists == SeqsUpTo(RawNames, MaxCols)

\* header rows of three columns: the column that is dropped lies between the
\* two that are kept, or repeats the first after another column, or the first
\* column normalises to source_file
LongHeaders == { <<Codes("a b"), Codes("A_B"), <<256>>>>,
                 <<<<256>>, Codes("a b"), <<9, 257, 12>>>>,
                 <<Codes("Source File"), Codes("A_B"), Codes("a b")>> }

\* an Excel file alone, and an Excel file followed by a CSV file
WideBatches ==
    {<<WideFile("w.xlsx", c)>> : c \in RawColumnLists \cup LongHeaders}
    \cup {<<WideFile("w.xlsx", c), WideFile("v.csv", d)>> :
             c \in RawColumnLists, d \in RawColumnLists}
    \cup {<<WideFile("w.xlsx", c), WideFile("v.csv", d)>> :
             c \in LongHeaders, d \in LongHeaders}

\* only the first run of a session, up to the merge: every batch is ingested
\* from Init
NextColumns ==
    \/ pc = "idle" /\ StartRun
    \/ \E files \in WideBatches : MainLogic(files)
    \/ StError
    \/ StException

SpecColumns == Init /\ [][NextColumns]_vars

(***************************************************************************)
(* Filters and aggregation: runs over every oracle output and every        *)
(* selection of the two multiselects.                                      *)
(***************************************************************************)
OracleOutputs == SeqsUpTo(OracleRecords, MaxRecords)

NextData ==
    \/ StartRun
    \/ MainLogic(<<FileA>>)
    \/ LoadedSuccess
    \/ \E res \in OracleOutputs : RunPrediction(res)
    \/ SpinnerExit
    \/ NoRiskStop
    \/ \E sites \in SUBSET SiteOptions(results_df) : SiteMultiselect(sites)
    \/ \E risks \in SUBSET RISK_OPTIONS : RiskMultiselect(risks)
    \/ NoMatchStop
    \/ TableAndRiskCount
    \/ SiteRiskCount
    \/ SiteChart
    \/ FlagTest
    \/ FlagInit
    \/ AutoEmail(SecretConfigs_Full, "none")
    \/ EmailSuccess
    \/ FlagWrite
    \/ DownloadReport
    \/ Interrupt

SpecData == Init /\ [][NextData]_vars

(***************************************************************************)
(* Properties.                                                             *)
(***************************************************************************)
NoValidFiles == "No valid files uploaded."
NoRiskDetected == "No significant future fault risk detected."
NoFilterMatch == "No results match selected filters."
SecretsNotConfigured == "Email secrets not configured. Skipping email."

\* the run ended in st.stop() right after showing msg
Halted(msg) == pc = "stopped" /\ ui # <<>> /\ ui[Len(ui)] = msg

EmailSent(state) == HasKey(state, "email_sent") /\ Get(state, "email_sent")

\* the place the current run got to: the st.* call it has reached, how it
\* ended, or the st.* call at which a rerun request unwound it
Position == IF pc = "interrupted" THEN interrupted_at ELSE pc

\* the points after p in the script, and its end
After(p) == {Points[i] : i \in (IndexOf(Points, p) + 1)..Len(Points)} \cup {"done"}

\* the run is over: it stopped, reached the end of the script, was ended by an
\* exception or unwound by a rerun request
RunOver == pc \in {"stopped", "done", "raised", "interrupted"}

\* the SMTP connections opened by the calls of this run
Attempts == Cardinality({i \in 1..Len(email_calls) : email_calls[i].attempted})

\* some secret is set neither in st.secrets nor in the environment
MissingSecret(cfg) ==
    \E k \in SecretKeys : ~HasKey(cfg.st_secrets, k) /\ ~HasKey(cfg.environ, k)

\* send_email_report was called in this run: it raised at line 80, or reached
\* the warning of line 95, or returned
DispatcherCalled ==
    \/ exception = "st.secrets@80"
    \/ Position = "st.warning@95"
    \/ email_calls # <<>>

\* C1: within one session the report is handed to the transport (sendmail
\* performed) at most once, whatever the runs, their inputs and the outcomes
\* of the SMTP steps.
C1_ReportDeliveredAtMostOnce == deliveries <= 1

\* a send succeeded and a rerun request unwound the run at the success message
\* of line 330: the report is with the transport and email_sent is false
C1_Witness_UnwoundAfterSend ==
    /\ pc = "interrupted" /\ interrupted_at = "st.success@330"
    /\ email_calls # <<>> /\ email_calls[1].result
    /\ deliveries = 1
    /\ session_state = {<<"email_sent", FALSE>>}

\* C2: a call of the dispatcher with email_sent false returns; when its send
\* fails (a missing configuration or a transport error) it returns failure
\* after exactly one send attempt and email_sent stays false; every run that
\* reaches the dispatcher with email_sent still false calls it again; and a run
\* whose send succeeded has set email_sent to true when it is over.
C2_FailedSendIsExactlyOneAttempt ==
    /\ DispatcherCalled => exception = "none"
    /\ (email_calls # <<>> /\ ~email_calls[1].result) =>
          /\ ~EmailSent(session_state)
          /\ Len(email_calls) = 1
          /\ Attempts = 1
    /\ (Position \in After("st.warning@95") /\ ~EmailSent(session_start)) =>
          email_calls # <<>>
    /\ (RunOver /\ email_calls # <<>> /\ email_calls[1].result) =>
          EmailSent(session_state)

\* predict_future_faults returned an empty sequence in this run
OracleReturnedEmpty == oracle_input # <<>> /\ results = <<>> /\ exception = "none"

\* C5: when the oracle returns an empty sequence the run goes to the no-risk
\* warning and st.stop(), and ends there with the no-risk message: no filter
\* step, no chart data, no call of the dispatcher, no download artifact, and
\* st.session_state is as the run found it.
C5_EmptyOracleResultHalts ==
    OracleReturnedEmpty =>
        /\ Position \in {"st.spinner.exit@189", "st.warning@192", "stopped"}
        /\ pc = "st.spinner.exit@189" => ENABLED SpinnerExit
        /\ pc = "st.warning@192" => ENABLED NoRiskStop
        /\ pc = "stopped" => Halted(NoRiskDetected)
        /\ results_df = <<>>
        /\ site_filter = {} /\ risk_filter = {} /\ filtered_df = <<>>
        /\ risk_count = {} /\ site_risk = {}
        /\ ~DispatcherCalled
        /\ email_calls = <<>>
        /\ download = <<>>
        /\ session_state = session_start

\* the oracle returned nothing in a session that already has a flag, and the
\* run has stopped
C5_Witness_NoRiskInLaterRun ==
    /\ OracleReturnedEmpty
    /\ pc = "stopped"
    /\ session_start # {}

\* C6: with a secret absent the dispatcher returns false without opening a
\* connection, email_sent stays false, the warning is shown, and the run does
\* not stop: it can go on to the download button, whose artifact is the CSV of
\* the filtered table.
C6_MissingSecretSkipsSend ==
    (DispatcherCalled /\ MissingSecret(secrets)) =>
        /\ session_state = {<<"email_sent", FALSE>>}
        /\ exception = "none"
        /\ pc \notin {"stopped", "raised"}
        /\ Position \in {"st.warning@95", "st.warning@333", "st.subheader@339", "done"}
        /\ IF Position = "st.warning@95"
           THEN /\ email_calls = <<>>
                /\ pc = "st.warning@95" => ENABLED SecretsWarning
           ELSE /\ Len(email_calls) = 1
                /\ ~email_calls[1].result
                /\ ~email_calls[1].attempted
                /\ email_calls[1].steps = <<>>
                /\ SecretsNotConfigured \in Range(ui)
        /\ pc = "st.warning@333" => ENABLED EmailWarning
        /\ pc = "st.subheader@339" => ENABLED DownloadReport
        /\ pc = "done" =>
              /\ Len(download) = 1
              /\ download[1].file_name = "future_fault_report.csv"
              /\ Len(download[1].data) = Len(filtered_df) + 1
              /\ \A i \in 1..Len(filtered_df) :
                    /\ download[1].data[i + 1][1] = filtered_df[i].Site
                    /\ download[1].data[i + 1][5] = filtered_df[i].Risk_Level

\* C10: the dispatcher is called and the download artifact is produced only in
\* a run that passed the three halts, so both hold at least one record; a run
\* that halts leaves st.session_state as it found it.
C10_OutputsOnlyAfterTheHalts ==
    /\ (DispatcherCalled \/ download # <<>>) =>
          /\ all_dfs # <<>>
          /\ results # <<>>
          /\ filtered_df # <<>>
          /\ Range(ui) \cap {NoValidFiles, NoRiskDetected, NoFilterMatch} = {}
          /\ \A i \in 1..Len(email_calls) :
                /\ Len(email_calls[i].df) >= 1
                /\ \A k \in 1..Len(email_calls[i].messages) :
                      Len(email_calls[i].messages[k].html.body) >= 1
          /\ \A i \in 1..Len(download) : Len(download[i].data) >= 2
    /\ Position \in {"st.warning@171", "st.warning@192", "st.warning@227", "stopped"} =>
          /\ session_state = session_start
          /\ ~DispatcherCalled
          /\ download = <<>>
    /\ session_state # session_start =>
          Position \in After("st.session_state@324") \/ exception = "st.secrets@80"
    /\ pc = "stopped" =>
          \/ Halted(NoValidFiles) /\ all_dfs = <<>>
          \/ Halted(NoRiskDetected) /\ results = <<>>
          \/ Halted(NoFilterMatch) /\ filtered_df = <<>>

\* the filters matched nothing in a session whose flag is already set
C10_Witness_HaltedAtFilters ==
    /\ Halted(NoFilterMatch)
    /\ session_start = {<<"email_sent", FALSE>>}

\* a run sent the report and produced the download
C10_Witness_Delivered ==
    /\ pc = "done" /\ download # <<>>
    /\ email_calls # <<>> /\ email_calls[1].result

(***************************************************************************)
(* Properties of the ingestion (SpecIngest, SpecColumns).                  *)
(***************************************************************************)
ID == Codes("id")

\* the (first raw cell, file name) pairs of the rows of the files that are
\* read, file by file in upload order
RECURSIVE ExpectedRows(_)
ExpectedRows(files) ==
    IF files = <<>> THEN <<>>
    ELSE (IF ~ReadRaises(Head(files))
          THEN [r \in 1..Len(Head(files).rows) |->
                   <<Head(files).rows[r][1], Head(files).name>>]
          ELSE <<>>)
         \o ExpectedRows(Tail(files))

\* the ("id", "source_file") cells of the rows of the merged table
MergedRows ==
    [r \in 1..Len(df.rows) |->
        <<df.rows[r][IndexOf(df.columns, ID)],
          df.rows[r][IndexOf(df.columns, SOURCE_FILE)]>>]

Survivors == {i \in 1..Len(uploaded_files) : ~ReadRaises(uploaded_files[i])}

\* the uploaded files that raise, in upload order
Failing == SelectSeq(uploaded_files, ReadRaises)

\* the uploader has returned and the loop of lines 137-168 has taken every
\* uploaded file
LoopDone == Position \notin {"st.set_page_config@22", "st.error@167", "st.exception@168"}

\* predict_future_faults was called in this run
OracleCalled ==
    \/ Position \in After("st.subheader@179")
    \/ pc = "raised"
    \/ Halted(NoRiskDetected) \/ Halted(NoFilterMatch)

\* C7 as stated, for any batch, the empty one included: each file that cannot
\* be read is reported and skipped, the others are ingested in order; the
\* merged table holds exactly their rows, each tagged with its own file name;
\* the oracle is called (with the merged table, once) only if a file survived,
\* and is called in every such run that gets to line 189; when none survived
\* the run goes to the "No valid files uploaded." warning and stops there,
\* before oracle, e-mail and download.
C7_AnyBatchIsIngestedOrWarned ==
    \* while the loop runs: the files taken so far
    /\ Len(all_dfs) = Cardinality({i \in Survivors : i <= uploaded_file})
    /\ Len(read_errors) =
          Cardinality({i \in 1..uploaded_file : i \notin Survivors})
          - (IF Position = "st.error@167" THEN 1 ELSE 0)
    /\ \A i \in 1..Len(read_errors) : read_errors[i] = Failing[i].name
    /\ ~LoopDone => oracle_input = <<>> /\ df = EmptyFrame
    /\ LoopDone =>
          /\ Len(all_dfs) = Cardinality(Survivors)
          /\ Len(read_errors) = Len(Failing)
          /\ IF Survivors = {}
             THEN /\ Position \in {"st.warning@171", "stopped"}
                  /\ pc = "st.warning@171" => ENABLED NoValidFilesStop
                  /\ pc = "stopped" => ui = <<NoValidFiles>>
                  /\ oracle_input = <<>>
                  /\ ~DispatcherCalled
                  /\ download = <<>>
             ELSE /\ NoValidFiles \notin Range(ui)
                  /\ Position # "st.warning@171"
                  /\ MergedRows = ExpectedRows(uploaded_files)
                  /\ IF OracleCalled THEN oracle_input = <<df>>
                     ELSE /\ oracle_input = <<>>
                          /\ Position \in {"st.success@178", "st.subheader@179"}

\* C7 amended: the same for any batch of at least one uploaded file.  (With
\* no file uploaded line 133 skips the whole script: no warning is shown.)
C7_FailingFilesAreSkipped == uploaded_files # <<>> => C7_AnyBatchIsIngestedOrWarned

\* an unreadable file came before a readable one, and the oracle was called
C7_Witness_SkippedThenIngested ==
    /\ Len(uploaded_files) >= 2
    /\ ReadRaises(uploaded_files[1])
    /\ ~ReadRaises(uploaded_files[2])
    /\ uploaded_files[2].rows # <<>>
    /\ oracle_input # <<>>

NoDuplicates(cols) == \A i, j \in 1..Len(cols) : i < j => cols[i] # cols[j]

NormalizedNames(raw) == {NormalizeColumn(raw[k]) : k \in 1..Len(raw)}

\* the first raw column whose normalised name is c
FirstRaw(raw, c) ==
    CHOOSE k \in 1..Len(raw) :
        /\ NormalizeColumn(raw[k]) = c
        /\ \A j \in 1..(k-1) : NormalizeColumn(raw[j]) # c

\* a name in normalised form: no letter that lower() changes, no space, no
\* whitespace at either end
CleanName(c) ==
    /\ \A i \in 1..Len(c) : ToLowerFull(c[i]) = <<c[i]>> /\ c[i] # SPACE
    /\ c # <<>> => c[1] \notin Whitespace /\ c[Len(c)] \notin Whitespace

\* table t is the normalised table of the file f, whose raw table has the
\* column names raw
NormalizedTableOf(t, f) ==
    LET raw == ReadFile(f).columns
    IN  /\ NoDuplicates(t.columns)
        /\ Range(t.columns) = NormalizedNames(raw) \cup {SOURCE_FILE}
        /\ \A p \in 1..Len(t.columns) : CleanName(t.columns[p])
        /\ Len(t.rows) = Len(f.rows)
        \* a kept column holds the cells of the first raw column of its group,
        \* the source_file column holds the file name
        /\ \A r \in 1..Len(t.rows), p \in 1..Len(t.columns) :
              t.rows[r][p] = IF t.columns[p] = SOURCE_FILE THEN f.name
                             ELSE f.rows[r][FirstRaw(raw, t.columns[p])]
        \* the kept columns are in the order of their first occurrences, and a
        \* source_file column that no raw column gave comes last
        /\ \A p, q \in 1..Len(t.columns) :
              (p < q /\ t.columns[p] \in NormalizedNames(raw)) =>
                  /\ t.columns[q] \in NormalizedNames(raw)
                     => FirstRaw(raw, t.columns[p]) < FirstRaw(raw, t.columns[q])
        /\ \A p \in 1..Len(t.columns) :
              t.columns[p] \notin NormalizedNames(raw) => p = Len(t.columns)

RECURSIVE TotalRows(_)
TotalRows(frames) ==
    IF frames = <<>> THEN 0 ELSE Len(Head(frames).rows) + TotalRows(Tail(frames))

\* the uploaded files that were read, in upload order
ReadFiles == SelectSeq(uploaded_files, LAMBDA f : ~ReadRaises(f))

\* C9: every normalised table has one column per group of raw column names
\* (the names of the table as it was read) with the same normalised name, the
\* first of the group, in the original relative order, and no identifier
\* twice; the merged table has no identifier twice either, and has the union
\* of the tables' columns and all their rows.
C9_ColumnIdentifiersAreUnique ==
    all_dfs # <<>> =>
        /\ Len(all_dfs) <= Len(ReadFiles)
        /\ \A i \in 1..Len(all_dfs) : NormalizedTableOf(all_dfs[i], ReadFiles[i])
        /\ LoopDone =>
              /\ Len(all_dfs) = Len(ReadFiles)
              /\ NoDuplicates(df.columns)
              /\ Range(df.columns) =
                    UNION {Range(all_dfs[i].columns) : i \in 1..Len(all_dfs)}
              /\ Len(df.rows) = TotalRows(all_dfs)

\* two tables were merged: the raw table of the first has two columns,
\* differently written, with the same normalised name; the second has a raw
\* column that normalises to source_file
C9_Witness_CollidingNames ==
    /\ LoopDone
    /\ Len(all_dfs) = 2
    /\ LET raw == ReadFile(uploaded_files[1]).columns
       IN  \E i, j \in 1..Len(raw) :
              /\ i < j
              /\ raw[i] # raw[j]
              /\ NormalizeColumn(raw[i]) = NormalizeColumn(raw[j])
    /\ SOURCE_FILE \in NormalizedNames(ReadFile(uploaded_files[2]).columns)
    /\ Len(uploaded_files[2].header) = MaxCols

\* a table of three raw columns was normalised: the second column is dropped,
\* the first and the third are kept, in this order, before source_file
C9_Witness_DroppedBetweenKept ==
    /\ LoopDone
    /\ Len(all_dfs) = 2
    /\ uploaded_files[1].header = <<Codes("a b"), Codes("A_B"), <<256>>>>
    /\ all_dfs[1].columns = <<Codes("a_b"), <<257>>, SOURCE_FILE>>
    /\ all_dfs[1].rows = << <<"1", "3", "w.xlsx">> >>

(***************************************************************************)
(* Properties of the filters and of the chart data (SpecData).             *)
(***************************************************************************)
\* results_df is assigned in this run, line 195
AdapterDone == Position \in After("st.warning@192") \/ Halted(NoFilterMatch)

\* the filtered table is computed in this run, lines 214-224
FilterDone == Position \in After("st.multiselect@208") \/ Halted(NoFilterMatch)

\* risk_count is assigned in this run, lines 270-275
ChartsDone == Position \in After("st.subheader@234")

\* C3: with an empty risk-level selection the filtered table is empty,
\* whatever the records and the site selection, and the run goes to the
\* "No results match selected filters." warning and halts there.
C3_EmptyRiskSelectionMatchesNothing ==
    (FilterDone /\ risk_filter = {}) =>
        /\ filtered_df = <<>>
        /\ Position = "st.warning@227" \/ Halted(NoFilterMatch)

ValidRecord(r) ==
    /\ r.Risk_Level \in {"LOW", "MEDIUM", "HIGH"}
    /\ r.Probability >= 0 /\ r.Probability <= 100

\* C4: every record that reaches the filters, the chart data, the report body
\* or the download has a risk level among LOW, MEDIUM, HIGH and a probability
\* in 0..100; the records passed on are the valid records of the oracle output,
\* in order.
C4_OnlyValidRecordsPassTheAdapter ==
    /\ AdapterDone => results_df = SelectSeq(results, ValidRecord)
    /\ \A i \in 1..Len(filtered_df) : ValidRecord(filtered_df[i])

\* C8: the risk-distribution data has exactly one row for each of LOW,
\* MEDIUM and HIGH, with the number of records of that level in the
\* filtered table, 0 for a level without record.
C8_RiskCountHasAllThreeLevels ==
    ChartsDone =>
        risk_count = {<<lvl, Cardinality({i \in 1..Len(filtered_df) :
                                             filtered_df[i].Risk_Level = lvl})>> :
                         lvl \in {"LOW", "MEDIUM", "HIGH"}}

=============================================================================
